---- MODULE Spec2Model ----
(***************************************************************************)
(* Model of elastalert/ryver.py: the RyverAlerter connector.               *)
(*                                                                         *)
(* Python strings are strings (Len, SubSeq and \o act on them as on        *)
(* sequences of characters), a dict is a function from its keys, None is   *)
(* the value None below.  A JSON document is a tagged value.               *)
(***************************************************************************)
EXTENDS Integers, Sequences, FiniteSets, TLC

VARIABLES
    pc,               \* "new" | "ready" | "failed" (RyverAlerter), "fit" | "fitted" | "refitted" (fit_body alone)
    rule,             \* the rule dict handed to __init__
    url,              \* self.url
    headers,          \* self.headers
    content_factory,  \* self.content_factory and the cells its closure reads
    log_message,      \* self.log_message
    raised,           \* the exception the last call raised, NoException if it returned
    last_call,        \* the last alert invocation: rendered body, transport outcome, effects in order
    n_alerts,         \* number of alert invocations so far
    n_posts,          \* number of requests.post calls so far
    fit_body_arg,     \* fit_body alone: the body argument
    fit_max_size,     \* fit_body alone: the max_size argument
    fit_ret           \* fit_body alone: the returned string

vars == <<pc, rule, url, headers, content_factory, log_message, raised, last_call,
          n_alerts, n_posts, fit_body_arg, fit_max_size, fit_ret>>

-----------------------------------------------------------------------------
(* Bounds of the model *)

\* alert invocations per connector
MaxAlerts == 2
\* bodies of length DefaultMaxSize - ExtraLen .. DefaultMaxSize + ExtraLen are tried
ExtraLen == 2
\* bodies of length 0 .. SmallLen and max_size arguments 0 .. SmallLen are tried
SmallLen == 25
\* each body length is tried with this many different contents
Rotations == 2

-----------------------------------------------------------------------------
(* Python values *)

None == "<None>"

NoException == [site |-> "none"]

\* truth value of an optional string option: None and '' are false
Truthy(v) == v # None /\ v # ""

\* body[0:k]: a negative k counts from the end, both ends are clamped
PySlice0(s, k) ==
    LET end == IF k < 0 THEN (IF Len(s) + k < 0 THEN 0 ELSE Len(s) + k)
                        ELSE (IF k > Len(s) THEN Len(s) ELSE k)
    IN  SubSeq(s, 1, end)

\* a join that emits the items last to first
RECURSIVE JoinReversed(_, _)
JoinReversed(items, sep) ==
    IF Len(items) = 0 THEN ""
    ELSE IF Len(items) = 1 THEN items[1]
    ELSE JoinReversed(Tail(items), sep) \o sep \o items[1]

\* sep.join(items)
RECURSIVE Join(_, _)
Join(items, sep) ==
    IF Len(items) = 0 THEN ""
    ELSE IF Len(items) = 1 THEN items[1]
    ELSE items[1] \o sep \o Join(Tail(items), sep)

-----------------------------------------------------------------------------
(* RyverAlerter.__init__ *)

ryver_id_names_topic_first == <<"ryver_topic_id", "ryver_forum_id", "ryver_team_id">>

ryver_id_names == <<"ryver_forum_id", "ryver_team_id", "ryver_topic_id">>

\* sender = {} plus 'avatar' / 'displayName' for the truthy options
Sender(r) ==
    LET keys == {k \in {"avatar", "displayName"} :
                    Truthy(IF k = "avatar" THEN r.ryver_avatar ELSE r.ryver_display_name)}
    IN  [k \in keys |-> IF k = "avatar" THEN r.ryver_avatar ELSE r.ryver_display_name]

\* the locals of __init__ before the loop; factory is the lambda last assigned
InitLocals ==
    [url_path |-> None, factory |-> "unset", log_message |-> None,
     ryver_id |-> None, broke |-> FALSE]

\* the per-destination branches of the loop body
Resolve(st, name, ryver_id) ==
    IF name = "ryver_topic_id" THEN
        [st EXCEPT !.url_path = "postComments?$format=json",
                   !.factory = "topic",
                   !.log_message = "Alert sent to Ryver forum: " \o ryver_id]
    ELSE IF name = "ryver_team_id" THEN
        [st EXCEPT !.url_path = "workrooms(" \o ryver_id \o ")/Chat.PostMessage()",
                   !.factory = "chat",
                   !.log_message = "Alert sent to Ryver team: " \o ryver_id]
    ELSE IF name = "ryver_forum_id" THEN
        [st EXCEPT !.url_path = "forums(" \o ryver_id \o ")/Chat.PostMessage()",
                   !.factory = "chat",
                   !.log_message = "Alert sent to Ryver forum: " \o ryver_id]
    ELSE st

\* a loop body that forgets the break after detecting a second identifier
LoopBodyNoBreak(st, name, ryver_id) ==
    LET st1 == [st EXCEPT !.ryver_id = ryver_id]
    IN  IF ryver_id = None THEN st1
        ELSE IF st.url_path # None THEN [st1 EXCEPT !.url_path = None]
        ELSE Resolve(st1, name, ryver_id)

\* one iteration of "for name in ryver_id_names", ryver_id = self.rule.get(name)
LoopBody(st, name, ryver_id) ==
    LET st1 == [st EXCEPT !.ryver_id = ryver_id]
    IN  IF ryver_id = None THEN st1
        ELSE IF st.url_path # None THEN [st1 EXCEPT !.url_path = None, !.broke = TRUE]
        ELSE Resolve(st1, name, ryver_id)

\* the whole loop, from the i-th name on
RECURSIVE ScanNames(_, _, _)
ScanNames(r, i, st) ==
    IF i > Len(ryver_id_names) \/ st.broke THEN st
    ELSE ScanNames(r, i + 1, LoopBody(st, ryver_id_names[i], r[ryver_id_names[i]]))

ConfigErrorMessage ==
    "You need to specify one and only one of following options: "
    \o "ryver_forum_id, ryver_team_id, ryver_topic_id"

\* self.url
Url(r, url_path) ==
    "https://" \o r.ryver_organization \o ".ryver.com/api/1/odata.svc/" \o url_path

\* self.headers
Headers(r) ==
    [k \in {"content-type", "Authorization"} |->
        IF k = "content-type" THEN "application/json"
        ELSE "Basic " \o r.ryver_auth_basic]

\* the lambda with the cells it closes over: the locals ryver_id and sender
\* of __init__, read when the lambda is called, that is after the loop ended
Closure(st, r) ==
    [kind |-> st.factory, ryver_id |-> st.ryver_id, sender |-> Sender(r)]

\* self.content_factory(body)
ApplyFactory(cf, body) ==
    IF cf.kind = "topic" THEN [comment |-> body, post |-> [id |-> cf.ryver_id]]
    ELSE [body |-> body, createSource |-> cf.sender]

-----------------------------------------------------------------------------
(* RyverAlerter.fit_body *)

DefaultMaxSize == 8180

truncated == " [... content too big]"

\* a fit_body that keeps one character too many
fit_body_off_by_one(body, max_size) ==
    IF Len(body) <= max_size THEN body
    ELSE PySlice0(body, max_size - Len(truncated) + 1) \o truncated

fit_body(body, max_size) ==
    IF Len(body) <= max_size THEN body
    ELSE PySlice0(body, max_size - Len(truncated)) \o truncated

-----------------------------------------------------------------------------
(* The HTTP response handed to check_ryver_response *)

\* JSON documents
JNull == [t |-> "null"]
JNum(n) == [t |-> "num", num |-> n]
JStr(str) == [t |-> "str", str |-> str]
JList(items) == [t |-> "list", items |-> items]
JDict(f) == [t |-> "dict", map |-> f]
\* a response body that is no JSON document: response.json() raises
NotJson == [t |-> "invalid"]

Failed == [ok |-> FALSE]
Ok(val) == [ok |-> TRUE, val |-> val]

\* v[key]: KeyError on a missing key, TypeError on anything but a dict
GetItem(v, key) ==
    IF v.t = "dict" /\ key \in DOMAIN v.map THEN Ok(v.map[key]) ELSE Failed

\* iter(v): the items of a list, the characters of a string, the keys of a
\* dict (in the order of the model's own choosing), TypeError otherwise
Iterate(v) ==
    IF v.t = "list" THEN Ok(v.items)
    ELSE IF v.t = "str" THEN Ok([i \in 1..Len(v.str) |-> JStr(SubSeq(v.str, i, i))])
    ELSE IF v.t = "dict" THEN
        LET keys == DOMAIN v.map
            order == CHOOSE f \in [1..Cardinality(keys) -> keys] :
                        \A k \in keys : \E i \in DOMAIN f : f[i] = k
        IN  Ok([i \in DOMAIN order |-> JStr(order[i])])
    ELSE Failed

\* ", ".join(d['message'] for d in response.json()['error']['details']):
\* Ok(the joined string), or Failed when any step raises
DetailMessages(body) ==
    IF body.t = "invalid" THEN Failed
    ELSE LET error == GetItem(body, "error") IN
    IF ~error.ok THEN Failed
    ELSE LET details == GetItem(error.val, "details") IN
    IF ~details.ok THEN Failed
    ELSE LET it == Iterate(details.val) IN
    IF ~it.ok THEN Failed
    ELSE LET got == [i \in DOMAIN it.val |-> GetItem(it.val[i], "message")] IN
    IF \E i \in DOMAIN got : ~got[i].ok \/ got[i].val.t # "str" THEN Failed
    ELSE Ok(Join([i \in DOMAIN got |-> got[i].val.str], ", "))

EAException(site, message) == [site |-> site, type |-> "EAException", msg |-> message]

\* a raise_for_status that knows client errors only
raise_for_status_4xx_only(response) ==
    IF 400 <= response.status_code /\ response.status_code < 500 THEN
        Ok(ToString(response.status_code) \o " Client Error: " \o response.reason
           \o " for url: " \o response.url)
    ELSE Failed

\* response.raise_for_status(): Ok(the HTTPError's text) when it raises
raise_for_status(response) ==
    IF 400 <= response.status_code /\ response.status_code < 500 THEN
        Ok(ToString(response.status_code) \o " Client Error: " \o response.reason
           \o " for url: " \o response.url)
    ELSE IF 500 <= response.status_code /\ response.status_code < 600 THEN
        Ok(ToString(response.status_code) \o " Server Error: " \o response.reason
           \o " for url: " \o response.url)
    ELSE Failed

\* the generic handler, lines 128-131
GenericStatusCheck(response) ==
    LET e == raise_for_status(response)
    IN  IF e.ok THEN EAException("http", "Error posting to Ryver: " \o e.val)
        ELSE NoException

\* a check whose except clause returns instead of falling through
check_ryver_response_swallow(response) ==
    IF response.status_code = 400 THEN
        LET joined == DetailMessages(response.json)
        IN  IF joined.ok THEN
                EAException("ryver400",
                    "Error " \o ToString(response.status_code)
                    \o " sending message to Ryver on " \o response.url
                    \o ": " \o joined.val)
            ELSE NoException
    ELSE GenericStatusCheck(response)

\* the exception check_ryver_response raises, NoException when it returns
check_ryver_response(response) ==
    LET joined == IF response.status_code = 400 THEN DetailMessages(response.json)
                  ELSE Failed
    IN  IF response.status_code = 400 /\ joined.ok THEN
            EAException("ryver400",
                "Error " \o ToString(response.status_code)
                \o " sending message to Ryver on " \o response.url
                \o ": " \o joined.val)
        ELSE GenericStatusCheck(response)

-----------------------------------------------------------------------------
(* RyverAlerter.alert *)

Post(u, h, json) == [op |-> "post", url |-> u, headers |-> h, json |-> json]
Check == [op |-> "check"]
Log(message) == [op |-> "log", message |-> message]

\* an alert that posts again after a transport failure
alert_retry(u, h, cf, lm, body, outcome) ==
    LET post == Post(u, h, ApplyFactory(cf, fit_body(body, DefaultMaxSize)))
    IN  IF outcome.kind = "raise" THEN
            [effects |-> <<post, post>>,
             raised |-> EAException("transport",
                            "Error while contacting Ryver: " \o outcome.text)]
        ELSE LET e == check_ryver_response(outcome)
             IN  IF e # NoException THEN [effects |-> <<post, Check>>, raised |-> e]
                 ELSE [effects |-> <<post, Check, Log(lm)>>, raised |-> NoException]

\* an alert that logs before it checks the response and posts the raw body
alert_eager(u, h, cf, lm, body, outcome) ==
    LET post == Post(u, h, ApplyFactory(cf, body))
    IN  IF outcome.kind = "raise" THEN
            [effects |-> <<post>>,
             raised |-> EAException("transport",
                            "Error while contacting Ryver: " \o outcome.text)]
        ELSE LET e == check_ryver_response(outcome)
             IN  [effects |-> <<post, Log(lm), Check>>, raised |-> e]

\* alert(matches) on the connector (u, h, cf, lm), where create_alert_body
\* returned body and requests.post ended in outcome: the effects in order
\* and the exception raised
alert(u, h, cf, lm, body, outcome) ==
    LET post == Post(u, h, ApplyFactory(cf, fit_body(body, DefaultMaxSize)))
    IN  IF outcome.kind = "raise" THEN
            [effects |-> <<post>>,
             raised |-> EAException("transport",
                            "Error while contacting Ryver: " \o outcome.text)]
        ELSE LET e == check_ryver_response(outcome)
             IN  IF e # NoException THEN [effects |-> <<post, Check>>, raised |-> e]
                 ELSE [effects |-> <<post, Check, Log(lm)>>, raised |-> NoException]

-----------------------------------------------------------------------------
(* The environment: rules, rendered bodies, transport outcomes *)

\* an identifier option: absent (None), empty, or an id
IdValues == {None, "", "42"}

\* ryver_avatar / ryver_display_name: absent, empty, or a value
AvatarValues == {None, "", "http://img/a.png"}
DisplayNameValues == {None, "", "ElastAlert"}

Rules ==
    [ryver_forum_id : IdValues, ryver_team_id : IdValues, ryver_topic_id : IdValues,
     ryver_avatar : AvatarValues, ryver_display_name : DisplayNameValues,
     ryver_organization : {"acme"}, ryver_auth_basic : {"dXNlcjpwdw=="}]

RECURSIVE Repeat(_, _)
Repeat(str, n) ==
    IF n = 0 THEN ""
    ELSE IF n % 2 = 0 THEN LET half == Repeat(str, n \div 2) IN half \o half
    ELSE Repeat(str, n - 1) \o str

Pattern == "abcdefg"

\* a body of n characters; rot selects its content
MkBody(n, rot) == SubSeq(Repeat(Pattern, n \div Len(Pattern) + 2), 1 + rot, n + rot)

\* what create_alert_body may return to alert
AlertBodies ==
    {MkBody(n, 0) : n \in {Len(Pattern), DefaultMaxSize + ExtraLen}}

\* the arguments fit_body is tried on
FitBodies ==
    {MkBody(n, rot) :
        n \in (0..SmallLen) \cup ((DefaultMaxSize - ExtraLen)..(DefaultMaxSize + ExtraLen)),
        rot \in 0..(Rotations - 1)}
FitMaxSizes == (0..SmallLen) \cup {DefaultMaxSize}

Message(str) == JDict([k \in {"message"} |-> JStr(str)])
ErrorDetails(details) ==
    JDict([k \in {"error"} |-> JDict([j \in {"details"} |-> details])])

\* 400 bodies of the shape Ryver documents
WellFormedBodies ==
    {ErrorDetails(JList(<<Message("bad id"), Message("too long")>>)),
     ErrorDetails(JList(<<Message("too long"), Message("bad id")>>)),
     ErrorDetails(JList(<<Message("too long")>>)),
     ErrorDetails(JList(<<>>))}

\* details that are no list but iterate over nothing: the extraction
\* succeeds with no message
EmptyIterableBodies ==
    {ErrorDetails(JStr("")), ErrorDetails(JDict(<<>>))}

\* bodies on which the extraction raises
MalformedBodies ==
    {NotJson,
     JList(<<>>),
     JDict(<<>>),
     JDict([k \in {"error"} |-> JNull]),
     JDict([k \in {"error"} |-> JDict(<<>>)]),
     ErrorDetails(JNull),
     ErrorDetails(JStr("oops")),
     ErrorDetails(Message("oops")),
     ErrorDetails(JList(<<Message("bad id"), JDict(<<>>)>>)),
     ErrorDetails(JList(<<JDict([k \in {"message"} |-> JNum(5)])>>))}

Reason(status) ==
    CASE status = 101 -> "Switching Protocols"
      [] status = 200 -> "OK"
      [] status = 204 -> "No Content"
      [] status = 304 -> "Not Modified"
      [] status = 400 -> "Bad Request"
      [] status = 404 -> "Not Found"
      [] status = 500 -> "Internal Server Error"
      [] status = 503 -> "Service Unavailable"

Statuses == {101, 200, 204, 304, 400, 404, 500, 503}

Response(status, u, body) ==
    [kind |-> "response", status_code |-> status, reason |-> Reason(status),
     url |-> u, json |-> body]

\* how requests.post(u, ...) may end: a RequestException, or a response
Outcomes(u) ==
    {[kind |-> "raise", text |-> t] : t \in {"Connection refused", "Read timed out"}}
    \cup {Response(400, u, b) : b \in WellFormedBodies \cup EmptyIterableBodies
                                       \cup MalformedBodies}
    \cup {Response(st, u, NotJson) : st \in Statuses \ {400}}
    \cup {Response(st, u, ErrorDetails(JList(<<Message("bad id")>>))) : st \in {200, 404}}

-----------------------------------------------------------------------------
(* The connector: construction, then alerts *)

NoCall == [body |-> None, outcome |-> [kind |-> "none"], effects |-> <<>>]
NoFactory == [kind |-> "unset", ryver_id |-> None, sender |-> <<>>]

Init ==
    /\ pc = "new"
    /\ rule \in Rules
    /\ url = None
    /\ headers = <<>>
    /\ content_factory = NoFactory
    /\ log_message = None
    /\ raised = NoException
    /\ last_call = NoCall
    /\ n_alerts = 0
    /\ n_posts = 0
    /\ fit_body_arg = None
    /\ fit_max_size = 0
    /\ fit_ret = None

\* RyverAlerter(rule)
Construct ==
    /\ pc = "new"
    /\ LET st == ScanNames(rule, 1, InitLocals)
       IN  /\ content_factory' = Closure(st, rule)
           /\ log_message' = st.log_message
           /\ IF st.url_path = None
              THEN /\ raised' = EAException("config", ConfigErrorMessage)
                   /\ pc' = "failed"
                   /\ UNCHANGED <<url, headers>>
              ELSE /\ url' = Url(rule, st.url_path)
                   /\ headers' = Headers(rule)
                   /\ raised' = NoException
                   /\ pc' = "ready"
    /\ UNCHANGED <<rule, last_call, n_alerts, n_posts,
                   fit_body_arg, fit_max_size, fit_ret>>

Count(effects, op) == Cardinality({i \in DOMAIN effects : effects[i].op = op})

\* self.alert(matches)
Alert ==
    /\ pc = "ready"
    /\ n_alerts < MaxAlerts
    /\ \E body \in AlertBodies, outcome \in Outcomes(url) :
        LET r == alert(url, headers, content_factory, log_message, body, outcome)
        IN  /\ last_call' = [body |-> body, outcome |-> outcome, effects |-> r.effects]
            /\ raised' = r.raised
            /\ n_posts' = n_posts + Count(r.effects, "post")
    /\ n_alerts' = n_alerts + 1
    /\ UNCHANGED <<pc, rule, url, headers, content_factory, log_message,
                   fit_body_arg, fit_max_size, fit_ret>>

Next == Construct \/ Alert

Spec == Init /\ [][Next]_vars

-----------------------------------------------------------------------------
(* fit_body on its own, for every body and max_size *)

InitFit ==
    /\ pc = "fit"
    /\ fit_body_arg \in FitBodies
    /\ fit_max_size \in FitMaxSizes
    /\ fit_ret = None
    /\ rule = <<>>
    /\ url = None
    /\ headers = <<>>
    /\ content_factory = NoFactory
    /\ log_message = None
    /\ raised = NoException
    /\ last_call = NoCall
    /\ n_alerts = 0
    /\ n_posts = 0

\* fit_ret = fit_body(fit_body_arg, fit_max_size)
CallFitBody ==
    /\ pc = "fit"
    /\ fit_ret' = fit_body(fit_body_arg, fit_max_size)
    /\ pc' = "fitted"
    /\ UNCHANGED <<rule, url, headers, content_factory, log_message, raised, last_call,
                   n_alerts, n_posts, fit_body_arg, fit_max_size>>

\* fit_body applied to what it returned
Refit ==
    /\ pc = "fitted"
    /\ fit_body_arg' = fit_ret
    /\ fit_ret' = fit_body(fit_ret, fit_max_size)
    /\ pc' = "refitted"
    /\ UNCHANGED <<rule, url, headers, content_factory, log_message, raised, last_call,
                   n_alerts, n_posts, fit_max_size>>

NextFit == CallFitBody \/ Refit

SpecFit == InitFit /\ [][NextFit]_vars

-----------------------------------------------------------------------------
(* Vocabulary of the properties *)

\* sub occurs in str
Contains(str, sub) ==
    \E i \in 1..(Len(str) - Len(sub) + 1) : SubSeq(str, i, i + Len(sub) - 1) = sub

IdOptions == {"ryver_forum_id", "ryver_team_id", "ryver_topic_id"}

\* the identifier options that are set, that is present and not None
SetIds(r) == {name \in IdOptions : r[name] # None}

\* an optional field is configured when it holds a non-empty value
Configured(v) == v # None /\ v # ""

Constructed == pc \in {"ready", "failed"}

\* the last alert invocation got an HTTP response / a transport failure
GotResponse == pc = "ready" /\ last_call.outcome.kind = "response"
TransportFailed == pc = "ready" /\ last_call.outcome.kind = "raise"

Logged == \E i \in DOMAIN last_call.effects : last_call.effects[i].op = "log"

\* the spec's typed errors, told apart by the raise statement
IsConfigurationError(e) == e.site = "config"
IsTransportError(e) == e.site = "transport"
IsApiError(e) == e.site \in {"http", "ryver400"}

\* an ApiError produced by the generic status handler for the response o
IsGenericApiError(e, o) ==
    /\ e.site = "http"
    /\ Contains(e.msg, ToString(o.status_code))
    /\ Contains(e.msg, o.reason)

\* C1: constructing from a rule with zero, two or three of the identifier
\* options set raises the configuration error that names the three option
\* keys, and no request was posted.
C1_NotExactlyOneIdFails ==
    (Constructed /\ Cardinality(SetIds(rule)) # 1) =>
        /\ pc = "failed"
        /\ IsConfigurationError(raised)
        /\ \A name \in IdOptions : Contains(raised.msg, name)
        /\ n_posts = 0
        /\ last_call.effects = <<>>

C1_Witness ==
    /\ pc = "failed"
    /\ Cardinality(SetIds(rule)) = 3
    /\ IsConfigurationError(raised)

\* the url the spec gives for an endpoint path
ExpectedUrl(r, path) ==
    "https://" \o r.ryver_organization \o ".ryver.com/api/1/odata.svc/" \o path

\* senderMeta: the avatar and displayName keys of the configured fields
ExpectedSender(r, meta) ==
    /\ DOMAIN meta = {k \in {"avatar", "displayName"} :
                        Configured(IF k = "avatar" THEN r.ryver_avatar
                                   ELSE r.ryver_display_name)}
    /\ "avatar" \in DOMAIN meta => meta["avatar"] = r.ryver_avatar
    /\ "displayName" \in DOMAIN meta => meta["displayName"] = r.ryver_display_name

SampleBodies == {"", "rule X matched"}

\* C2: with exactly one identifier option set construction succeeds, and
\* the path and the payload are those of the destination table: topic ->
\* postComments?$format=json with {comment, post: {id: topic id}} and no
\* sender field at all; team -> workrooms(<id>)/Chat.PostMessage() and
\* forum -> forums(<id>)/Chat.PostMessage(), both with {body, createSource}
\* where createSource has the avatar / displayName keys of the configured
\* optional fields and no other.
C2_RouteMatchesTable ==
    (Constructed /\ Cardinality(SetIds(rule)) = 1) =>
        /\ pc = "ready"
        /\ raised.site # "config"
        /\ \A body \in SampleBodies :
            LET payload == ApplyFactory(content_factory, body) IN
            /\ rule.ryver_topic_id # None =>
                /\ url = ExpectedUrl(rule, "postComments?$format=json")
                /\ payload = [comment |-> body, post |-> [id |-> rule.ryver_topic_id]]
            /\ rule.ryver_team_id # None =>
                /\ url = ExpectedUrl(rule,
                            "workrooms(" \o rule.ryver_team_id \o ")/Chat.PostMessage()")
                /\ DOMAIN payload = {"body", "createSource"}
                /\ payload.body = body
                /\ ExpectedSender(rule, payload.createSource)
            /\ rule.ryver_forum_id # None =>
                /\ url = ExpectedUrl(rule,
                            "forums(" \o rule.ryver_forum_id \o ")/Chat.PostMessage()")
                /\ DOMAIN payload = {"body", "createSource"}
                /\ payload.body = body
                /\ ExpectedSender(rule, payload.createSource)

C2_Witness ==
    /\ pc = "ready"
    /\ rule.ryver_topic_id = "42"
    /\ Configured(rule.ryver_avatar)
    /\ Configured(rule.ryver_display_name)
    /\ n_alerts = 0

\* C3: with max_size 8180, fit_body returns a body of at most 8180
\* characters unchanged, and for a longer body returns 8180 characters: the
\* first 8158 of the body, then " [... content too big]"; fit_body applied
\* to what it returned returns it unchanged.
C3_DefaultFit ==
    /\ (pc = "fitted" /\ fit_max_size = 8180 /\ Len(fit_body_arg) <= 8180) =>
            fit_ret = fit_body_arg
    /\ (pc = "fitted" /\ fit_max_size = 8180 /\ Len(fit_body_arg) > 8180) =>
            /\ Len(fit_ret) = 8180
            /\ SubSeq(fit_ret, 1, 8158) = SubSeq(fit_body_arg, 1, 8158)
            /\ SubSeq(fit_ret, 8159, 8180) = " [... content too big]"
    /\ (pc = "refitted" /\ fit_max_size = 8180) => fit_ret = fit_body_arg

C3_Witness ==
    /\ pc = "refitted"
    /\ fit_max_size = 8180
    /\ Len(fit_ret) = 8180
    /\ SubSeq(fit_ret, 8159, 8180) = " [... content too big]"

\* C4: for every body and every max_size, the string fit_body returns is
\* at most max_size characters long.
C4_LengthAtMostMaxSize ==
    pc \in {"fitted", "refitted"} => Len(fit_ret) <= fit_max_size

\* the enrichment of a 400 response succeeded
Enriched(o) ==
    o.status_code = 400 /\ o.json \in WellFormedBodies \cup EmptyIterableBodies

\* C5 as stated: every response whose status is not 2xx makes the
\* invocation fail with an ApiError, the generic one unless a 400 was
\* enriched, with no success log; the invocation succeeds only on 2xx.
C5_Non2xxFails ==
    GotResponse =>
        LET o == last_call.outcome IN
        /\ ~(200 <= o.status_code /\ o.status_code <= 299) =>
            /\ IsApiError(raised)
            /\ ~Enriched(o) => IsGenericApiError(raised, o)
            /\ ~Logged
        /\ raised = NoException => (200 <= o.status_code /\ o.status_code <= 299)

\* C5 amended: every response whose status is 4xx or 5xx makes the
\* invocation fail with an ApiError, the generic one unless a 400 was
\* enriched, with no success log; the invocation succeeds exactly on the
\* other statuses (1xx, 2xx, 3xx).
C5_ErrorStatusFails ==
    GotResponse =>
        LET o == last_call.outcome IN
        /\ (400 <= o.status_code /\ o.status_code <= 599) =>
            /\ IsApiError(raised)
            /\ ~Enriched(o) => IsGenericApiError(raised, o)
            /\ ~Logged
        /\ raised = NoException <=> ~(400 <= o.status_code /\ o.status_code <= 599)

C5_Witness ==
    /\ GotResponse
    /\ last_call.outcome.status_code = 503
    /\ IsGenericApiError(raised, last_call.outcome)
    /\ ~Logged

\* the messages of a well-formed body, in the order of the document
MessagesOf(body) ==
    LET items == body.map["error"].map["details"].items
    IN  [i \in DOMAIN items |-> items[i].map["message"].str]

\* the messages occur in str one after the other, ", " between neighbours
RECURSIVE InOrderFrom(_, _, _, _)
InOrderFrom(str, msgs, i, at) ==
    IF i > Len(msgs) THEN TRUE
    ELSE /\ at + Len(msgs[i]) - 1 <= Len(str)
         /\ SubSeq(str, at, at + Len(msgs[i]) - 1) = msgs[i]
         /\ i < Len(msgs) =>
                /\ at + Len(msgs[i]) + 1 <= Len(str)
                /\ SubSeq(str, at + Len(msgs[i]), at + Len(msgs[i]) + 1) = ", "
         /\ InOrderFrom(str, msgs, i + 1, at + Len(msgs[i]) + 2)

ContainsJoined(str, msgs) == \E at \in 1..(Len(str) + 1) : InOrderFrom(str, msgs, 1, at)

\* C6: a 400 response whose body has a list of {message} at error.details
\* makes the invocation fail with an ApiError that contains the status
\* code, the request url and the messages joined with ", " in the order of
\* the body; the error is not the generic handler's.
C6_EnrichedError ==
    (GotResponse /\ last_call.outcome.status_code = 400
                 /\ last_call.outcome.json \in WellFormedBodies) =>
        /\ IsApiError(raised)
        /\ raised.site # "http"
        /\ Contains(raised.msg, "400")
        /\ Contains(raised.msg, url)
        /\ ContainsJoined(raised.msg, MessagesOf(last_call.outcome.json))
        /\ last_call.outcome.json
                = ErrorDetails(JList(<<Message("bad id"), Message("too long")>>))
            => Contains(raised.msg, "bad id, too long")
        /\ ~Logged

C6_Witness ==
    /\ GotResponse
    /\ last_call.outcome.status_code = 400
    /\ last_call.outcome.json
            = ErrorDetails(JList(<<Message("bad id"), Message("too long")>>))
    /\ raised.site = "ryver400"

\* C7: a 400 response on which the extraction of error.details[*].message
\* fails makes the invocation fail with the generic ApiError for status
\* 400: no other error, no success, no success log.
C7_FailedEnrichmentIsGeneric ==
    (GotResponse /\ last_call.outcome.status_code = 400
                 /\ last_call.outcome.json \in MalformedBodies) =>
        /\ raised # NoException
        /\ IsGenericApiError(raised, last_call.outcome)
        /\ Contains(raised.msg, "400")
        /\ ~Logged

C7_Witness ==
    /\ GotResponse
    /\ last_call.outcome.status_code = 400
    /\ last_call.outcome.json = ErrorDetails(JList(<<Message("bad id"), JDict(<<>>)>>))
    /\ raised.site = "http"

\* C8: when requests.post raises, the invocation fails with a
\* TransportError that wraps the cause, the response is never checked, no
\* ApiError and no ConfigurationError is raised, nothing is logged, and one
\* POST was made for the invocation; over any run every invocation has made
\* exactly one POST.
C8_TransportFailure ==
    /\ TransportFailed =>
        /\ IsTransportError(raised)
        /\ ~IsApiError(raised) /\ ~IsConfigurationError(raised)
        /\ Contains(raised.msg, last_call.outcome.text)
        /\ Len(last_call.effects) = 1
        /\ last_call.effects[1].op = "post"
    /\ n_posts = n_alerts

C8_Witness ==
    /\ TransportFailed
    /\ n_alerts = 2
    /\ IsTransportError(raised)
    /\ last_call.outcome.text = "Read timed out"

\* the text a payload carries
PayloadText(json) == IF "comment" \in DOMAIN json THEN json.comment ELSE json.body

\* C9: an invocation whose POST gets a 2xx response returns without
\* raising; its effects are one POST, then the check of the response, then
\* one log event with the connector's log message; the POST goes to the url
\* and headers resolved from the rule at construction, whatever ran before,
\* and carries the payload of the fitted body.
C9_SuccessfulAlert ==
    /\ pc = "ready" =>
        /\ \E path \in {"postComments?$format=json",
                        "workrooms(" \o rule.ryver_team_id \o ")/Chat.PostMessage()",
                        "forums(" \o rule.ryver_forum_id \o ")/Chat.PostMessage()"} :
                url = ExpectedUrl(rule, path)
        /\ DOMAIN headers = {"content-type", "Authorization"}
        /\ headers["content-type"] = "application/json"
        /\ headers["Authorization"] = "Basic " \o rule.ryver_auth_basic
    /\ (GotResponse /\ 200 <= last_call.outcome.status_code
                    /\ last_call.outcome.status_code <= 299) =>
        /\ raised = NoException
        /\ Len(last_call.effects) = 3
        /\ last_call.effects[1].op = "post"
        /\ last_call.effects[1].url = url
        /\ last_call.effects[1].headers = headers
        /\ last_call.effects[1].json
                = ApplyFactory(content_factory, PayloadText(last_call.effects[1].json))
        /\ PayloadText(last_call.effects[1].json) =
                IF Len(last_call.body) <= 8180 THEN last_call.body
                ELSE SubSeq(last_call.body, 1, 8158) \o " [... content too big]"
        /\ last_call.effects[2] = Check
        /\ last_call.effects[3] = Log(log_message)

C9_Witness ==
    /\ GotResponse
    /\ last_call.outcome.status_code = 204
    /\ n_alerts = 2
    /\ Len(last_call.body) > 8180
    /\ Logged

\* C10: the log message names the type of the configured destination and
\* its id; a topic or a team destination is not called a forum.
C10_LabelNamesDestination ==
    pc = "ready" =>
        /\ rule.ryver_topic_id # None =>
            /\ Contains(log_message, "topic")
            /\ Contains(log_message, rule.ryver_topic_id)
            /\ ~Contains(log_message, "forum")
        /\ rule.ryver_team_id # None =>
            /\ Contains(log_message, "team")
            /\ Contains(log_message, rule.ryver_team_id)
            /\ ~Contains(log_message, "forum")
        /\ rule.ryver_forum_id # None =>
            /\ Contains(log_message, "forum")
            /\ Contains(log_message, rule.ryver_forum_id)

====
